---- MODULE Spec2Model ----
(***************************************************************************)
(* Model of the public speaking coach pipeline: the LangGraph workflow of  *)
(* src/src/agent_graph.py, the four node functions of                      *)
(* src/src/agent_nodes.py and the storage / media helpers of src/utils.py. *)
(*                                                                         *)
(* Text (URIs, blob names, transcripts, feedback) is a sequence of tokens. *)
(* The characters the code inspects ("g" "s" ":" "/" "*" " ") are tokens   *)
(* of their own; any other token stands for a run of characters the code   *)
(* never looks into.  The empty string is << >>.  A dict is a function     *)
(* whose DOMAIN is the set of its keys; a key bound to None is modelled as *)
(* a missing key (state.get() cannot tell the two apart).                  *)
(***************************************************************************)
EXTENDS Naturals, Sequences, FiniteSets, TLC

VARIABLES
    driver,   \* "graph": runs are driven by the compiled workflow; "direct": node functions called one by one
    pc,       \* per run: the node (or the place inside a node) that executes next
    state,    \* per run: the PublicSpeakingState dict
    error,    \* per run: the exception that ended the run, if any
    uid,      \* per run: the node's local unique_id
    fs,       \* local filesystem: path -> file content
    remote,   \* bucket storage: <<bucket, blob name>> -> object content
    drawn,    \* uuid4 values handed out so far
    started,  \* per run, per node: how many times the node function was entered
    calls,    \* per run, per collaborator: how many times it was called
    paths,    \* per run: local scratch paths the run created
    keys,     \* per run: <<bucket, blob name>> pairs the run uploaded to
    response, \* per run: response.results the transcript was joined from
    locals    \* per run: the local variables of the storage test of utils.py

vars == <<driver, pc, state, error, uid, fs, remote, drawn, started, calls, paths, keys, response,
          locals>>

-----------------------------------------------------------------------------
(* Bounds *)

\* concurrent runs
NumRuns == 2
\* hexadecimal digits of a unique_id
UuidHexLen == 2
\* longest feedback text of the sanitization check
MaxTextLen == 4
\* most result segments of the transcription check
MaxSegs == 2
\* longest blob name of the storage test
MaxKeyLen == 5

Runs == 1..NumRuns

-----------------------------------------------------------------------------
(* Text helpers *)

Empty == << >>

\* s[i..] of Python: the suffix starting at 1-based position i
Drop(s, i) == SubSeq(s, i, Len(s))

StartsWith(s, p) == Len(s) >= Len(p) /\ SubSeq(s, 1, Len(p)) = p

\* str.replace(old, "") : every non-overlapping occurrence removed, left to right
RECURSIVE Remove(_, _)
Remove(s, old) ==
    IF s = Empty THEN Empty
    ELSE IF StartsWith(s, old) THEN Remove(Drop(s, Len(old) + 1), old)
    ELSE <<Head(s)>> \o Remove(Tail(s), old)

\* position of the first token equal to c, 0 when there is none
RECURSIVE Find(_, _, _)
Find(s, c, i) ==
    IF i > Len(s) THEN 0 ELSE IF s[i] = c THEN i ELSE Find(s, c, i + 1)

\* str.split(sep, 1)
Split1(s, sep) ==
    LET i == Find(s, sep, 1)
    IN  IF i = 0 THEN <<s>> ELSE <<SubSeq(s, 1, i - 1), Drop(s, i + 1)>>

\* mutant: "".join(parts)
RECURSIVE JoinNoSep(_, _)
JoinNoSep(parts, sep) ==
    IF parts = << >> THEN Empty
    ELSE parts[1] \o JoinNoSep(Tail(parts), sep)

\* sep.join(parts)
RECURSIVE Join(_, _)
Join(parts, sep) ==
    IF parts = << >> THEN Empty
    ELSE IF Len(parts) = 1 THEN parts[1]
    ELSE parts[1] \o sep \o Join(Tail(parts), sep)

HexDigits == <<"0", "1", "2", "3", "4", "5", "6", "7", "8", "9", "a", "b", "c", "d", "e", "f">>

\* uuid.UUID.hex : fixed-width lowercase hexadecimal
RECURSIVE Hex(_, _)
Hex(n, width) ==
    IF width = 0 THEN Empty
    ELSE Hex(n \div 16, width - 1) \o <<HexDigits[(n % 16) + 1]>>

-----------------------------------------------------------------------------
(* Configuration and naming: src/utils.py, src/src/agent_nodes.py *)

GCS_BUCKET_NAME == <<"your-public-speaking-coach-bucket">>

GsScheme == <<"g", "s", ":", "/", "/">>

\* the URI upload_to_gcs returns: f"gs://{GCS_BUCKET_NAME}/{destination_blob_name}"
GcsUri(bucket, blob_name) == GsScheme \o bucket \o <<"/">> \o blob_name

\* download_from_gcs / delete_gcs_blob: gcs_uri.replace("gs://", "").split("/", 1)
ParseGcsUri(gcs_uri) ==
    LET path_parts == Split1(Remove(gcs_uri, GsScheme), "/")
    IN  <<path_parts[1], IF Len(path_parts) > 1 THEN path_parts[2] ELSE Empty>>

LocalVideoPath(unique_id) == <<"/tmp/">> \o unique_id \o <<"_input_video.mp4">>
LocalAudioPath(unique_id) == <<"/tmp/">> \o unique_id \o <<"_extracted_audio.wav">>
LocalFeedbackPath(unique_id) == <<"/tmp/">> \o unique_id \o <<"_feedback.mp3">>
AudioBlobName(unique_id) == <<"extracted_audio", "/">> \o unique_id \o <<".wav">>
FeedbackBlobName(unique_id) == <<"feedback_audio", "/">> \o unique_id \o <<".mp3">>

\* mutant: one identifier computed once per process instead of one per call
Uuid4HexPerProcess(u) == Hex(0, UuidHexLen)

\* uuid.uuid4().hex for the drawn value u
Uuid4Hex(u) == Hex(u, UuidHexLen)

\* values uuid.uuid4() can return: uuid4 does not repeat a value, and the code
\* never looks into one, so the least value not handed out stands for any of them
Uuid4Values(already) ==
    {u \in 0..Cardinality(already) : u \notin already /\ \A v \in 0..(u - 1) : v \in already}

\* the sample rate Speech-to-Text is configured for
TargetRate == 16000

\* mutant: the audio is exported at the rate it was decoded at
ExportRateKeep(frame_rate) == frame_rate

\* extract_audio_from_video: audio.set_frame_rate(16000) is called for this rate
Resamples(frame_rate) == frame_rate # TargetRate

\* extract_audio_from_video: the frame rate of the exported audio
ExportRate(frame_rate) == IF frame_rate # TargetRate THEN TargetRate ELSE frame_rate

\* s with the first occurrence of old removed
RECURSIVE RemoveFirst(_, _)
RemoveFirst(s, old) ==
    IF s = Empty THEN Empty
    ELSE IF StartsWith(s, old) THEN Drop(s, Len(old) + 1)
    ELSE <<Head(s)>> \o RemoveFirst(Tail(s), old)

\* mutant: re.sub(r'\*\*', '', feedback_text, count=1)
StripBoldFirstOnly(feedback_text) == RemoveFirst(feedback_text, <<"*", "*">>)

\* mutant: re.sub(r'\*', '', feedback_text), which strips single asterisks too
StripEveryAsterisk(feedback_text) == Remove(feedback_text, <<"*">>)

\* re.sub(r'\*\*', '', feedback_text)
StripBold(feedback_text) == Remove(feedback_text, <<"*", "*">>)

-----------------------------------------------------------------------------
(* The state dict *)

Keys == {"video_gcs_uri", "extracted_audio_gcs_uri", "transcript", "feedback_text",
         "feedback_audio_gcs_uri"}

EmptyDict == [k \in {} |-> Empty]

\* mutant: the initial state built with every optional field set to ""
PublicSpeakingStateAllFields(uri) ==
    [k \in Keys |-> IF k = "video_gcs_uri" THEN uri ELSE Empty]

\* PublicSpeakingState(video_gcs_uri=uri)
PublicSpeakingState(uri) == [k \in {"video_gcs_uri"} |-> uri]

\* mutant: `state.get(key) is None`, which lets the empty string through
NotGetNoneOnly(s, key) == key \notin DOMAIN s

\* `not state.get(key)`: the key is missing (or None), or its value is the empty string
NotGet(s, key) == key \notin DOMAIN s \/ s[key] = Empty

\* mutant: the result stored under a key copied from another node
MergeWrongKey(s, key, value) ==
    [k \in DOMAIN s \cup {"transcript"} |-> IF k = "transcript" THEN value ELSE s[k]]

\* {**s, key: value}
Merge(s, key, value) == [k \in DOMAIN s \cup {key} |-> IF k = key THEN value ELSE s[k]]

-----------------------------------------------------------------------------
(* The workflow graph: build_public_speaking_coach_graph *)

Nodes == {"extract_audio", "transcribe_audio", "coach_feedback", "synthesize_audio_feedback"}

EntryPoint == "extract_audio"

\* mutant: the edge from coach_feedback goes straight to END
NextNodeNoSynth(node) ==
    CASE node = "extract_audio" -> "transcribe_audio"
      [] node = "transcribe_audio" -> "coach_feedback"
      [] node = "coach_feedback" -> "END"
      [] node = "synthesize_audio_feedback" -> "END"

\* mutant: the edge from synthesize_audio_feedback goes back to the entry point
NextNodeLoop(node) ==
    CASE node = "extract_audio" -> "transcribe_audio"
      [] node = "transcribe_audio" -> "coach_feedback"
      [] node = "coach_feedback" -> "synthesize_audio_feedback"
      [] node = "synthesize_audio_feedback" -> "extract_audio"

\* workflow.add_edge(a, b)
NextNode(node) ==
    CASE node = "extract_audio" -> "transcribe_audio"
      [] node = "transcribe_audio" -> "coach_feedback"
      [] node = "coach_feedback" -> "synthesize_audio_feedback"
      [] node = "synthesize_audio_feedback" -> "END"

\* where control goes when a node function returns
After(node) == IF driver = "graph" THEN NextNode(node) ELSE "returned"

-----------------------------------------------------------------------------
(* Files and objects *)

Video(rate) == [kind |-> "video", rate |-> rate, text |-> Empty]
Wav(rate) == [kind |-> "wav", rate |-> rate, text |-> Empty]
Mp3(text) == [kind |-> "mp3", rate |-> 0, text |-> text]
Partial == [kind |-> "partial", rate |-> 0, text |-> Empty]

\* d with key k bound to v (a file written, an object put)
Put(d, k, v) == [x \in DOMAIN d \cup {k} |-> IF x = k THEN v ELSE d[x]]

\* d without key k (os.remove)
Del(d, k) == [x \in DOMAIN d \ {k} |-> d[x]]

\* the stored object a gs:// URI names, as the engines resolve it
Resolves(uri) == {loc \in DOMAIN remote : GcsUri(loc[1], loc[2]) = uri}

-----------------------------------------------------------------------------
(* What the collaborators can answer *)

Rates == {16000, 44100}

\* a result of the recognizer is the sequence of its alternatives' transcripts
Result(transcript) == <<transcript>>
NoAlternatives == << >>

\* response.results
Results ==
    {<< >>, <<Result(Empty)>>, <<Result(<<"hello">>)>>,
     <<Result(<<"hello">>), Result(<<"world">>)>>, <<NoAlternatives>>}

\* response.content of the language model
Replies == {Empty, <<"*", "*", "Strengths:", "*", "*">>}

SampleVideoUri == GcsUri(GCS_BUCKET_NAME, <<"test_videos", "/", "sample_speech.mp4">>)

-----------------------------------------------------------------------------
(* Bookkeeping shared by the actions *)

NoError == [stage |-> "none", cause |-> "none"]

Collaborators == {"download", "decode", "resample", "upload", "recognize", "generate", "synthesize"}

Enter(r, node) == started' = [started EXCEPT ![r][node] = @ + 1]

Call(r, who) == [calls EXCEPT ![r][who] = @ + 1]

\* mutant: the exception is caught and logged, and the run goes on to the next node
RaiseAndGoOn(r, node, cause) ==
    /\ pc' = [pc EXCEPT ![r] = After(node)]
    /\ error' = [error EXCEPT ![r] = [stage |-> node, cause |-> cause]]
    /\ state' = state

\* the node function raises: the exception leaves the node and ends the run;
\* nothing the node computed reaches the state
Raise(r, node, cause) ==
    /\ pc' = [pc EXCEPT ![r] = "failed"]
    /\ error' = [error EXCEPT ![r] = [stage |-> node, cause |-> cause]]
    /\ state' = state

\* the node function returns new_state: it becomes the run's state and control
\* follows the node's edge
Return(r, node, new_state) ==
    /\ pc' = [pc EXCEPT ![r] = After(node)]
    /\ state' = [state EXCEPT ![r] = new_state]
    /\ error' = error

-----------------------------------------------------------------------------
(* node_extract_audio, agent_nodes.py 51-74 *)

\* lines 56-63: read the video URI, draw unique_id, download the video
ExtractDownload(r) ==
    /\ pc[r] = "extract_audio"
    /\ Enter(r, "extract_audio")
    /\ UNCHANGED <<driver, locals, response, remote, keys>>
    /\ IF "video_gcs_uri" \notin DOMAIN state[r]
       THEN /\ Raise(r, "extract_audio", "KeyError")
            /\ UNCHANGED <<uid, fs, drawn, calls, paths>>
       ELSE \E u \in Uuid4Values(drawn) :
            LET unique_id == Uuid4Hex(u)
                local_video_path == LocalVideoPath(unique_id)
                blob == ParseGcsUri(state[r]["video_gcs_uri"])
            IN  /\ drawn' = drawn \cup {u}
                /\ uid' = [uid EXCEPT ![r] = unique_id]
                /\ calls' = Call(r, "download")
                /\ \/ /\ blob \in DOMAIN remote
                      /\ fs' = Put(fs, local_video_path, remote[blob])
                      /\ paths' = [paths EXCEPT ![r] = @ \cup {local_video_path}]
                      /\ pc' = [pc EXCEPT ![r] = "decode"]
                      /\ UNCHANGED <<state, error>>
                   \/ \* the download fails; the library may leave the file it opened
                      /\ \E left \in BOOLEAN :
                           IF left
                           THEN /\ fs' = Put(fs, local_video_path, Partial)
                                /\ paths' = [paths EXCEPT ![r] = @ \cup {local_video_path}]
                           ELSE UNCHANGED <<fs, paths>>
                      /\ Raise(r, "extract_audio", "download")

\* line 64: extract_audio_from_video(local_video_path, local_audio_path), utils.py 54-74
ExtractDecode(r) ==
    /\ pc[r] = "decode"
    /\ UNCHANGED <<driver, locals, response, remote, keys, uid, drawn, started>>
    /\ LET video_path == LocalVideoPath(uid[r])
           output_audio_path == LocalAudioPath(uid[r])
           resampled == [Call(r, "decode") EXCEPT ![r]["resample"] = @ + 1]
       IN  \/ /\ video_path \in DOMAIN fs
              /\ fs[video_path].kind = "video"
              /\ calls' = IF Resamples(fs[video_path].rate) THEN resampled ELSE Call(r, "decode")
              /\ fs' = Put(fs, output_audio_path, Wav(ExportRate(fs[video_path].rate)))
              /\ paths' = [paths EXCEPT ![r] = @ \cup {output_audio_path}]
              /\ pc' = [pc EXCEPT ![r] = "upload_audio"]
              /\ UNCHANGED <<state, error>>
           \/ \* decoding, resampling or export fails; export may leave the file it opened
              /\ \/ calls' = Call(r, "decode")
                 \/ /\ video_path \in DOMAIN fs
                    /\ Resamples(fs[video_path].rate)
                    /\ calls' = resampled
              /\ \E left \in BOOLEAN :
                   IF left
                   THEN /\ fs' = Put(fs, output_audio_path, Partial)
                        /\ paths' = [paths EXCEPT ![r] = @ \cup {output_audio_path}]
                   ELSE UNCHANGED <<fs, paths>>
              /\ Raise(r, "extract_audio", "decode")

\* lines 66-71: upload the audio, remove both local files, return the new state
ExtractUpload(r) ==
    /\ pc[r] = "upload_audio"
    /\ UNCHANGED <<driver, locals, response, uid, drawn, started, paths>>
    /\ calls' = Call(r, "upload")
    /\ LET local_video_path == LocalVideoPath(uid[r])
           local_audio_path == LocalAudioPath(uid[r])
           blob == <<GCS_BUCKET_NAME, AudioBlobName(uid[r])>>
           audio_gcs_uri == GcsUri(blob[1], blob[2])
       IN  \/ /\ local_audio_path \in DOMAIN fs
              /\ remote' = Put(remote, blob, fs[local_audio_path])
              /\ keys' = [keys EXCEPT ![r] = @ \cup {blob}]
              /\ \/ \* os.remove(local_video_path) fails
                    /\ UNCHANGED fs
                    /\ Raise(r, "extract_audio", "remove")
                 \/ \* os.remove(local_audio_path) fails
                    /\ local_video_path \in DOMAIN fs
                    /\ fs' = Del(fs, local_video_path)
                    /\ Raise(r, "extract_audio", "remove")
                 \/ /\ local_video_path \in DOMAIN fs
                    /\ fs' = Del(Del(fs, local_video_path), local_audio_path)
                    /\ Return(r, "extract_audio",
                              Merge(state[r], "extracted_audio_gcs_uri", audio_gcs_uri))
           \/ /\ UNCHANGED <<fs, remote, keys>>
              /\ Raise(r, "extract_audio", "upload")

-----------------------------------------------------------------------------
(* node_transcribe_audio, agent_nodes.py 76-105 *)

\* lines 80-95: check the input, submit the recognition job
TranscribeSubmit(r) ==
    /\ pc[r] = "transcribe_audio"
    /\ Enter(r, "transcribe_audio")
    /\ UNCHANGED <<driver, locals, response, uid, fs, remote, drawn, paths, keys>>
    /\ IF NotGet(state[r], "extracted_audio_gcs_uri")
       THEN /\ Raise(r, "transcribe_audio", "ValueError")
            /\ UNCHANGED calls
       ELSE /\ calls' = Call(r, "recognize")
            /\ \/ \* long_running_recognize returns the operation
                  /\ pc' = [pc EXCEPT ![r] = "operation_result"]
                  /\ UNCHANGED <<state, error>>
               \/ Raise(r, "transcribe_audio", "engine")

\* lines 96-105: wait for the operation, join the transcripts, return the new
\* state; the recognizer answers one of answers
TranscribeResultFrom(r, answers) ==
    /\ pc[r] = "operation_result"
    /\ UNCHANGED <<driver, locals, uid, fs, remote, drawn, started, calls, paths, keys>>
    /\ \/ \E results \in answers :
            /\ \E loc \in Resolves(state[r]["extracted_audio_gcs_uri"]) :
                  remote[loc].kind = "wav"
            /\ IF \E i \in 1..Len(results) : results[i] = NoAlternatives
               THEN \* result.alternatives[0] raises IndexError
                    /\ Raise(r, "transcribe_audio", "IndexError")
                    /\ UNCHANGED response
               ELSE LET transcript_parts == [i \in 1..Len(results) |-> results[i][1]]
                    IN  /\ response' = [response EXCEPT ![r] = results]
                        /\ Return(r, "transcribe_audio",
                                  Merge(state[r], "transcript", Join(transcript_parts, <<" ">>)))
       \/ \* operation.result(timeout=300) gives up
          /\ Raise(r, "transcribe_audio", "timeout")
          /\ UNCHANGED response
       \/ \* the operation ends in an error
          /\ Raise(r, "transcribe_audio", "engine")
          /\ UNCHANGED response

TranscribeResult(r) == TranscribeResultFrom(r, Results)

-----------------------------------------------------------------------------
(* node_coach_feedback, agent_nodes.py 107-136 *)

Coach(r) ==
    /\ pc[r] = "coach_feedback"
    /\ Enter(r, "coach_feedback")
    /\ UNCHANGED <<driver, locals, response, uid, fs, remote, drawn, paths, keys>>
    /\ IF NotGet(state[r], "transcript")
       THEN /\ Raise(r, "coach_feedback", "ValueError")
            /\ UNCHANGED calls
       ELSE /\ calls' = Call(r, "generate")
            /\ \/ \E content \in Replies :
                    Return(r, "coach_feedback", Merge(state[r], "feedback_text", content))
               \/ Raise(r, "coach_feedback", "engine")

-----------------------------------------------------------------------------
(* node_synthesize_audio_feedback, agent_nodes.py 138-180 *)

\* lines 144-175: check the input, strip the bold markers, synthesize, write the file
SynthCall(r) ==
    /\ pc[r] = "synthesize_audio_feedback"
    /\ Enter(r, "synthesize_audio_feedback")
    /\ UNCHANGED <<driver, locals, response, remote, keys>>
    /\ IF NotGet(state[r], "feedback_text")
       THEN /\ Raise(r, "synthesize_audio_feedback", "ValueError")
            /\ UNCHANGED <<uid, fs, drawn, calls, paths>>
       ELSE /\ calls' = Call(r, "synthesize")
            /\ LET clean_feedback_text == StripBold(state[r]["feedback_text"])
               IN  \/ \E u \in Uuid4Values(drawn) :
                        LET local_feedback_audio_path == LocalFeedbackPath(Uuid4Hex(u))
                        IN  /\ drawn' = drawn \cup {u}
                            /\ uid' = [uid EXCEPT ![r] = Uuid4Hex(u)]
                            /\ fs' = Put(fs, local_feedback_audio_path, Mp3(clean_feedback_text))
                            /\ paths' = [paths EXCEPT ![r] = @ \cup {local_feedback_audio_path}]
                            /\ pc' = [pc EXCEPT ![r] = "upload_feedback"]
                            /\ UNCHANGED <<state, error>>
                   \/ \* the write of the file fails; open() may have created it
                      \E u \in Uuid4Values(drawn) :
                        LET local_feedback_audio_path == LocalFeedbackPath(Uuid4Hex(u))
                        IN  /\ drawn' = drawn \cup {u}
                            /\ uid' = [uid EXCEPT ![r] = Uuid4Hex(u)]
                            /\ \E left \in BOOLEAN :
                                 IF left
                                 THEN /\ fs' = Put(fs, local_feedback_audio_path, Partial)
                                      /\ paths' = [paths EXCEPT ![r] =
                                                      @ \cup {local_feedback_audio_path}]
                                 ELSE UNCHANGED <<fs, paths>>
                            /\ Raise(r, "synthesize_audio_feedback", "write")
                   \/ \* synthesize_speech raises
                      /\ Raise(r, "synthesize_audio_feedback", "engine")
                      /\ UNCHANGED <<uid, fs, drawn, paths>>

\* mutant: os.remove(local_feedback_audio_path) placed before upload_to_gcs, which
\* then finds no file to upload
SynthUploadRemoveFirst(r) ==
    /\ pc[r] = "upload_feedback"
    /\ UNCHANGED <<driver, locals, response, uid, drawn, started, paths, remote, keys>>
    /\ calls' = Call(r, "upload")
    /\ fs' = Del(fs, LocalFeedbackPath(uid[r]))
    /\ Raise(r, "synthesize_audio_feedback", "upload")

\* lines 177-180: upload the file, remove it, return the new state
SynthUpload(r) ==
    /\ pc[r] = "upload_feedback"
    /\ UNCHANGED <<driver, locals, response, uid, drawn, started, paths>>
    /\ calls' = Call(r, "upload")
    /\ LET local_feedback_audio_path == LocalFeedbackPath(uid[r])
           blob == <<GCS_BUCKET_NAME, FeedbackBlobName(uid[r])>>
           feedback_audio_gcs_uri == GcsUri(blob[1], blob[2])
       IN  \/ /\ local_feedback_audio_path \in DOMAIN fs
              /\ remote' = Put(remote, blob, fs[local_feedback_audio_path])
              /\ keys' = [keys EXCEPT ![r] = @ \cup {blob}]
              /\ \/ \* os.remove(local_feedback_audio_path) fails
                    /\ UNCHANGED fs
                    /\ Raise(r, "synthesize_audio_feedback", "remove")
                 \/ /\ fs' = Del(fs, local_feedback_audio_path)
                    /\ Return(r, "synthesize_audio_feedback",
                              Merge(state[r], "feedback_audio_gcs_uri", feedback_audio_gcs_uri))
           \/ /\ UNCHANGED <<fs, remote, keys>>
              /\ Raise(r, "synthesize_audio_feedback", "upload")

-----------------------------------------------------------------------------
(* Specifications *)

\* graph.stream(initial_state) for every run, agent_graph.py 39-55
Init ==
    /\ driver = "graph"
    /\ pc = [r \in Runs |-> EntryPoint]
    /\ state = [r \in Runs |-> PublicSpeakingState(SampleVideoUri)]
    /\ error = [r \in Runs |-> NoError]
    /\ uid = [r \in Runs |-> Empty]
    /\ fs = EmptyDict
    /\ \E rate \in Rates : remote = Put(EmptyDict, ParseGcsUri(SampleVideoUri), Video(rate))
    /\ drawn = {}
    /\ started = [r \in Runs |-> [n \in Nodes |-> 0]]
    /\ calls = [r \in Runs |-> [c \in Collaborators |-> 0]]
    /\ paths = [r \in Runs |-> {}]
    /\ keys = [r \in Runs |-> {}]
    /\ response = [r \in Runs |-> << >>]
    /\ locals = [r \in Runs |-> EmptyDict]

Next ==
    \E r \in Runs :
        \/ ExtractDownload(r)
        \/ ExtractDecode(r)
        \/ ExtractUpload(r)
        \/ TranscribeSubmit(r)
        \/ TranscribeResult(r)
        \/ Coach(r)
        \/ SynthCall(r)
        \/ SynthUpload(r)

Spec == Init /\ [][Next]_vars

\* node functions called one by one on a state the caller built, as the
\* __main__ block of agent_nodes.py does (lines 199-219); run 1 makes the call

SampleAudioBlob == <<GCS_BUCKET_NAME, AudioBlobName(Uuid4Hex(0))>>

SampleValue(key) ==
    CASE key = "video_gcs_uri" -> SampleVideoUri
      [] key = "extracted_audio_gcs_uri" -> GcsUri(SampleAudioBlob[1], SampleAudioBlob[2])
      [] key = "transcript" -> <<"hello">>
      [] key = "feedback_text" -> <<"*", "*", "Strengths:", "*", "*">>
      [] key = "feedback_audio_gcs_uri" -> GcsUri(GCS_BUCKET_NAME, FeedbackBlobName(Uuid4Hex(0)))

\* every dict over Keys whose values are missing, empty or a sample value
DirectStates ==
    {[k \in {j \in Keys : c[j] # "missing"} |-> IF c[k] = "empty" THEN Empty ELSE SampleValue(k)] :
        c \in [Keys -> {"missing", "empty", "value"}]}

InitDirect ==
    /\ driver = "direct"
    /\ \E node \in Nodes : pc = [r \in Runs |-> IF r = 1 THEN node ELSE "idle"]
    /\ \E s \in DirectStates : state = [r \in Runs |-> IF r = 1 THEN s ELSE EmptyDict]
    /\ error = [r \in Runs |-> NoError]
    /\ uid = [r \in Runs |-> Empty]
    /\ fs = EmptyDict
    /\ \E rate \in Rates :
          remote = Put(Put(EmptyDict, ParseGcsUri(SampleVideoUri), Video(rate)),
                       SampleAudioBlob, Wav(TargetRate))
    /\ drawn = {0}
    /\ started = [r \in Runs |-> [n \in Nodes |-> 0]]
    /\ calls = [r \in Runs |-> [c \in Collaborators |-> 0]]
    /\ paths = [r \in Runs |-> {}]
    /\ keys = [r \in Runs |-> {}]
    /\ response = [r \in Runs |-> << >>]
    /\ locals = [r \in Runs |-> EmptyDict]

SpecDirect == InitDirect /\ [][Next]_vars

-----------------------------------------------------------------------------
(* Vocabulary of the properties *)

\* a field is populated: present and not the empty string
Populated(s, key) == key \in DOMAIN s /\ s[key] # Empty

NodeOrder == <<"extract_audio", "transcribe_audio", "coach_feedback", "synthesize_audio_feedback">>

\* the field each stage produces, and the field it requires
Produces == [n \in Nodes |->
    CASE n = "extract_audio" -> "extracted_audio_gcs_uri"
      [] n = "transcribe_audio" -> "transcript"
      [] n = "coach_feedback" -> "feedback_text"
      [] n = "synthesize_audio_feedback" -> "feedback_audio_gcs_uri"]

Requires == [n \in Nodes |->
    CASE n = "extract_audio" -> "video_gcs_uri"
      [] n = "transcribe_audio" -> "extracted_audio_gcs_uri"
      [] n = "coach_feedback" -> "transcript"
      [] n = "synthesize_audio_feedback" -> "feedback_text"]

\* the engine each stage calls
Engine == [n \in Nodes |->
    CASE n = "extract_audio" -> "download"
      [] n = "transcribe_audio" -> "recognize"
      [] n = "coach_feedback" -> "generate"
      [] n = "synthesize_audio_feedback" -> "synthesize"]

\* the places of control inside each stage, after its first step
Inside == [n \in Nodes |->
    CASE n = "extract_audio" -> {"decode", "upload_audio"}
      [] n = "transcribe_audio" -> {"operation_result"}
      [] n = "synthesize_audio_feedback" -> {"upload_feedback"}
      [] OTHER -> {}]

\* stage n of run r has been entered and has left without raising
Completed(r, n) ==
    /\ started[r][n] >= 1
    /\ pc[r] \notin Inside[n]
    /\ error[r].stage # n

\* stage n of run r has been entered and has left, either way
Returned(r, n) ==
    /\ started[r][n] >= 1
    /\ pc[r] \notin Inside[n]

-----------------------------------------------------------------------------
(* C1: a run ends in exactly one of two outcomes: the END of the graph with  *)
(* all five fields populated, or a failure that names one stage; a state     *)
(* with fewer than five populated fields is never a successful outcome.      *)
C1_RunOutcome ==
    \A r \in Runs :
        /\ pc[r] = "END" =>
              /\ error[r] = NoError
              /\ \A k \in Keys : Populated(state[r], k)
        /\ pc[r] = "failed" => error[r].stage \in Nodes
        /\ error[r] # NoError => pc[r] = "failed"
        /\ (\E k \in Keys : ~Populated(state[r], k)) => pc[r] # "END"

C1_Witness ==
    \E r1, r2 \in Runs :
        /\ pc[r1] = "END" /\ DOMAIN state[r1] = Keys
        /\ pc[r2] = "failed" /\ error[r2].stage = "transcribe_audio"

(* C2 as stated: whenever Transcription starts the state has the extracted   *)
(* audio reference populated, whenever FeedbackGeneration starts it has a     *)
(* non-empty transcript, and whenever FeedbackSynthesis starts it has a       *)
(* non-empty feedback text.                                                   *)
C2_Original ==
    \A r \in Runs :
        \A n \in Nodes \ {"extract_audio"} :
            pc[r] = n => Populated(state[r], Requires[n])

(* C3: the stages run in the fixed order, each at most once; after a stage   *)
(* fails no later stage starts and no later stage's engine is called; a      *)
(* transcription timeout fails the run at Transcription with the generation  *)
(* and synthesis engines never called.                                       *)
C3_FixedOrder ==
    \A r \in Runs :
        /\ \A n \in Nodes : started[r][n] <= 1
        /\ \A c \in Collaborators : calls[r][c] <= (IF c = "upload" THEN 2 ELSE 1)
        /\ \A i \in 2..4 :
              started[r][NodeOrder[i]] = 1 =>
                  /\ started[r][NodeOrder[i - 1]] = 1
                  /\ Produces[NodeOrder[i - 1]] \in DOMAIN state[r]
        /\ \A i \in 1..4 :
              error[r].stage = NodeOrder[i] =>
                  /\ pc[r] = "failed"
                  /\ \A j \in (i + 1)..4 :
                        /\ started[r][NodeOrder[j]] = 0
                        /\ calls[r][Engine[NodeOrder[j]]] = 0
        /\ error[r].cause = "timeout" =>
              /\ error[r].stage = "transcribe_audio"
              /\ pc[r] = "failed"
              /\ calls[r]["generate"] = 0
              /\ calls[r]["synthesize"] = 0

C3_Witness ==
    \E r \in Runs :
        /\ pc[r] = "failed"
        /\ error[r] = [stage |-> "transcribe_audio", cause |-> "timeout"]
        /\ calls[r]["recognize"] = 1

(* C4 as stated: once AudioExtraction has returned, by success or by any     *)
(* failure, neither the downloaded video copy nor the extracted WAV is left  *)
(* on the local filesystem.                                                  *)
C4_ExtractCleanup ==
    \A r \in Runs :
        Returned(r, "extract_audio") =>
            \A p \in paths[r] :
                p[Len(p)] \in {"_input_video.mp4", "_extracted_audio.wav"} => p \notin DOMAIN fs

(* C5 as stated: once FeedbackSynthesis has returned after writing its       *)
(* scratch file, the file is gone, whether the upload succeeded or failed.   *)
C5_SynthCleanup ==
    \A r \in Runs :
        Returned(r, "synthesize_audio_feedback") =>
            \A p \in paths[r] : p[Len(p)] = "_feedback.mp3" => p \notin DOMAIN fs

(* C6: with every drawn identifier fresh, no two concurrent runs use the     *)
(* same local scratch path and no two runs write the same storage key.       *)
C6_Uniqueness ==
    \A r1, r2 \in Runs :
        r1 # r2 =>
            /\ paths[r1] \cap paths[r2] = {}
            /\ keys[r1] \cap keys[r2] = {}

C6_Witness ==
    \E r1, r2 \in Runs :
        /\ r1 # r2
        /\ Cardinality(paths[r1]) = 2 /\ Cardinality(paths[r2]) = 2
        /\ keys[r1] # {} /\ keys[r2] # {}
        /\ pc[r1] = "transcribe_audio" /\ pc[r2] = "transcribe_audio"

\* the place of control from which each stage returns
LastStep == [n \in Nodes |->
    CASE n = "extract_audio" -> "upload_audio"
      [] n = "transcribe_audio" -> "operation_result"
      [] n = "coach_feedback" -> "coach_feedback"
      [] n = "synthesize_audio_feedback" -> "upload_feedback"]

\* this step is stage n of run r returning successfully
Succeeds(r, n) == pc[r] = LastStep[n] /\ pc'[r] \notin {pc[r], "failed"}

(* C7: a stage that succeeds returns a state that differs from its input in  *)
(* exactly its own field, which was not there before; every field already    *)
(* written, the source reference included, keeps its value in every step;    *)
(* the state changes in no other step.                                       *)
C7_AppendOnly ==
    [][\A r \in Runs :
          /\ \A k \in DOMAIN state[r] : k \in DOMAIN state'[r] /\ state'[r][k] = state[r][k]
          /\ \A n \in Nodes :
                Succeeds(r, n) =>
                    /\ Produces[n] \notin DOMAIN state[r]
                    /\ DOMAIN state'[r] = DOMAIN state[r] \cup {Produces[n]}
          /\ state'[r] # state[r] => \E n \in Nodes : Succeeds(r, n)]_vars

C7_Witness ==
    \E r \in Runs :
        /\ DOMAIN state[r] = Keys
        /\ state[r]["video_gcs_uri"] = SampleVideoUri
        /\ state[r]["transcript"] = <<"hello", " ", "world">>

(* C8: a run starts with only the source reference in its state, and each    *)
(* other field is in the state exactly when its producing stage has          *)
(* completed successfully; a stage that fails writes no field.               *)
C8_FieldAbsence ==
    \A r \in Runs :
        /\ "video_gcs_uri" \in DOMAIN state[r]
        /\ (\A n \in Nodes : started[r][n] = 0) => DOMAIN state[r] = {"video_gcs_uri"}
        /\ \A n \in Nodes : Produces[n] \in DOMAIN state[r] <=> Completed(r, n)
        /\ \A n \in Nodes : error[r].stage = n => Produces[n] \notin DOMAIN state[r]

C8_Witness ==
    \E r \in Runs :
        /\ pc[r] = "failed"
        /\ error[r].stage = "coach_feedback"
        /\ DOMAIN state[r] = {"video_gcs_uri", "extracted_audio_gcs_uri", "transcript"}
        /\ state[r]["transcript"] # Empty

(* C9: Transcription, FeedbackGeneration or FeedbackSynthesis invoked on a   *)
(* state whose required field is absent or empty raises its precondition     *)
(* error at once: no collaborator is called, no identifier is drawn, no      *)
(* local file or stored object is created and the state stays as it was.     *)
C9_FailFast ==
    [][\A r \in Runs :
          \A n \in Nodes \ {"extract_audio"} :
              (pc[r] = n /\ ~Populated(state[r], Requires[n]) /\ pc'[r] # pc[r]) =>
                  /\ pc'[r] = "failed"
                  /\ error'[r] = [stage |-> n, cause |-> "ValueError"]
                  /\ calls' = calls
                  /\ drawn' = drawn
                  /\ fs' = fs
                  /\ remote' = remote
                  /\ state' = state]_vars

C9_Witness ==
    \E r \in Runs :
        /\ pc[r] = "failed"
        /\ error[r] = [stage |-> "transcribe_audio", cause |-> "ValueError"]
        /\ "extracted_audio_gcs_uri" \notin DOMAIN state[r]
        /\ \A c \in Collaborators : calls[r][c] = 0
        /\ fs = EmptyDict

(* C10: when transcription completes with an empty transcript, Transcription *)
(* has succeeded, the only thing FeedbackGeneration does is fail with its    *)
(* precondition error, the run fails at FeedbackGeneration and the           *)
(* generation engine is never called.                                        *)
C10_EmptyTranscript ==
    \A r \in Runs :
        ("transcript" \in DOMAIN state[r] /\ state[r]["transcript"] = Empty) =>
            /\ Completed(r, "transcribe_audio")
            /\ calls[r]["generate"] = 0
            /\ calls[r]["synthesize"] = 0
            /\ pc[r] \in {"coach_feedback", "failed"}
            /\ pc[r] = "failed" => error[r] = [stage |-> "coach_feedback", cause |-> "ValueError"]
            /\ pc[r] = "coach_feedback" => started[r]["coach_feedback"] = 0

C10_Witness ==
    \E r \in Runs :
        /\ "transcript" \in DOMAIN state[r]
        /\ state[r]["transcript"] = Empty
        /\ pc[r] = "failed"
        /\ error[r].stage = "coach_feedback"
        /\ calls[r]["recognize"] = 1

(* C11 as stated: AudioExtraction invoked with an empty source reference     *)
(* fails with an input-validation error of its own, InvalidInput, which is   *)
(* not the failure of a collaborator.                                        *)
C11_InvalidInput ==
    \A r \in Runs :
        (/\ started[r]["extract_audio"] = 1
         /\ "video_gcs_uri" \in DOMAIN state[r]
         /\ state[r]["video_gcs_uri"] = Empty) =>
            /\ pc[r] = "failed"
            /\ error[r] = [stage |-> "extract_audio", cause |-> "InvalidInput"]

(* C12 as stated: an empty reply of the text-generation engine fails         *)
(* FeedbackGeneration itself: an empty feedbackText is never written and no  *)
(* graph run fails at FeedbackSynthesis for lack of feedback text.           *)
C12_EmptyReply ==
    \A r \in Runs :
        /\ "feedback_text" \in DOMAIN state[r] => state[r]["feedback_text"] # Empty
        /\ error[r] # [stage |-> "synthesize_audio_feedback", cause |-> "ValueError"]

(* C13 as stated: once AudioExtraction or FeedbackSynthesis has uploaded its *)
(* artifact, the stage returns success with its reference in the state even  *)
(* when removing a local scratch file fails.                                 *)
C13_CleanupNotFatal ==
    \A r \in Runs :
        /\ (Returned(r, "extract_audio") /\ \E b \in keys[r] : b[2][1] = "extracted_audio") =>
              /\ Completed(r, "extract_audio")
              /\ "extracted_audio_gcs_uri" \in DOMAIN state[r]
        /\ (Returned(r, "synthesize_audio_feedback") /\ \E b \in keys[r] : b[2][1] = "feedback_audio") =>
              /\ Completed(r, "synthesize_audio_feedback")
              /\ "feedback_audio_gcs_uri" \in DOMAIN state[r]

-----------------------------------------------------------------------------
(* Sanitization: node_synthesize_audio_feedback called on every feedback    *)
(* text over a small alphabet                                                *)

TextAlphabet == {"*", "a"}

Texts ==
    UNION {[1..n -> TextAlphabet] : n \in 0..MaxTextLen}
        \cup {<<"*", "*", "Strengths:", "*", "*">>}

InitText ==
    /\ driver = "direct"
    /\ pc = [r \in Runs |-> IF r = 1 THEN "synthesize_audio_feedback" ELSE "idle"]
    /\ \E t \in Texts :
          state = [r \in Runs |->
                      IF r = 1
                      THEN Merge(PublicSpeakingState(SampleVideoUri), "feedback_text", t)
                      ELSE EmptyDict]
    /\ error = [r \in Runs |-> NoError]
    /\ uid = [r \in Runs |-> Empty]
    /\ fs = EmptyDict
    /\ remote = Put(EmptyDict, ParseGcsUri(SampleVideoUri), Video(TargetRate))
    /\ drawn = {}
    /\ started = [r \in Runs |-> [n \in Nodes |-> 0]]
    /\ calls = [r \in Runs |-> [c \in Collaborators |-> 0]]
    /\ paths = [r \in Runs |-> {}]
    /\ keys = [r \in Runs |-> {}]
    /\ response = [r \in Runs |-> << >>]
    /\ locals = [r \in Runs |-> EmptyDict]

NextText == \E r \in Runs : SynthCall(r) \/ SynthUpload(r)

SpecText == InitText /\ [][NextText]_vars

\* t holds no two adjacent asterisks
NoBold(t) == \A i \in 1..(Len(t) - 1) : ~(t[i] = "*" /\ t[i + 1] = "*")

\* the number of asterisks t starts with
RECURSIVE LeadingStars(_)
LeadingStars(t) ==
    IF t # Empty /\ Head(t) = "*" THEN 1 + LeadingStars(Tail(t)) ELSE 0

\* t with its double asterisks taken out, run by run: a run of n asterisks
\* loses n \div 2 pairs, every other token stays where it is
RECURSIVE WithoutPairs(_)
WithoutPairs(t) ==
    IF t = Empty THEN Empty
    ELSE LET n == LeadingStars(t)
         IN  IF n = 0 THEN <<Head(t)>> \o WithoutPairs(Tail(t))
             ELSE (IF n % 2 = 1 THEN <<"*">> ELSE Empty) \o WithoutPairs(Drop(t, n + 1))

\* the audio files synthesized so far, local or stored
Synthesized ==
    {fs[p] : p \in {q \in DOMAIN fs : fs[q].kind = "mp3"}}
        \cup {remote[b] : b \in {c \in DOMAIN remote : remote[c].kind = "mp3"}}

(* C14: stripping the bold markers is idempotent: the text given to the      *)
(* synthesis engine holds no double asterisk and stripping it again, or      *)
(* stripping the feedback text twice, changes nothing.                       *)
C14_StripIdempotent ==
    /\ \A f \in Synthesized : NoBold(f.text) /\ StripBold(f.text) = f.text
    /\ \A r \in Runs :
          "feedback_text" \in DOMAIN state[r] =>
              StripBold(StripBold(state[r]["feedback_text"])) = StripBold(state[r]["feedback_text"])

C14_Witness ==
    \E r \in Runs :
        /\ pc[r] = "upload_feedback"
        /\ state[r]["feedback_text"] = <<"*", "*", "*", "a">>
        /\ fs[LocalFeedbackPath(uid[r])].text = <<"*", "a">>

(* C15: the text given to the synthesis engine is the feedback text with     *)
(* every double asterisk removed and every other character kept in order,    *)
(* and the feedback_text of the state keeps the unsanitized text.            *)
C15_Sanitized ==
    /\ [](\A r \in Runs :
            /\ pc[r] = "upload_feedback" =>
                  fs[LocalFeedbackPath(uid[r])].text = WithoutPairs(state[r]["feedback_text"])
            /\ \A b \in keys[r] :
                  remote[b].kind = "mp3" => remote[b].text = WithoutPairs(state[r]["feedback_text"]))
    /\ [][\A r \in Runs :
            "feedback_text" \in DOMAIN state[r] =>
                /\ "feedback_text" \in DOMAIN state'[r]
                /\ state'[r]["feedback_text"] = state[r]["feedback_text"]]_vars

C15_Witness ==
    \E r \in Runs :
        /\ pc[r] = "returned"
        /\ state[r]["feedback_text"] = <<"*", "*", "Strengths:", "*", "*">>
        /\ \E b \in keys[r] : remote[b] = Mp3(<<"Strengths:">>)

-----------------------------------------------------------------------------
(* Transcription: node_transcribe_audio called on an extracted audio, the    *)
(* recognizer answering every short list of result segments                  *)

SegTexts == {Empty, <<"hello">>, <<"world">>}

\* a result with one alternative, or with none
Segs == {Result(t) : t \in SegTexts} \cup {NoAlternatives}

SegResults == UNION {[1..n -> Segs] : n \in 0..MaxSegs}

InitJoin ==
    /\ driver = "direct"
    /\ pc = [r \in Runs |-> "transcribe_audio"]
    /\ state = [r \in Runs |->
                   Merge(PublicSpeakingState(SampleVideoUri), "extracted_audio_gcs_uri",
                         GcsUri(SampleAudioBlob[1], SampleAudioBlob[2]))]
    /\ error = [r \in Runs |-> NoError]
    /\ uid = [r \in Runs |-> Empty]
    /\ fs = EmptyDict
    /\ remote = Put(Put(EmptyDict, ParseGcsUri(SampleVideoUri), Video(TargetRate)),
                    SampleAudioBlob, Wav(TargetRate))
    /\ drawn = {0}
    /\ started = [r \in Runs |-> [n \in Nodes |-> 0]]
    /\ calls = [r \in Runs |-> [c \in Collaborators |-> 0]]
    /\ paths = [r \in Runs |-> {}]
    /\ keys = [r \in Runs |-> {}]
    /\ response = [r \in Runs |-> << >>]
    /\ locals = [r \in Runs |-> EmptyDict]

NextJoin == \E r \in Runs : TranscribeSubmit(r) \/ TranscribeResultFrom(r, SegResults)

SpecJoin == InitJoin /\ [][NextJoin]_vars

\* where segment i starts in the flat string: the tokens before it
RECURSIVE Offset(_, _)
Offset(results, i) ==
    IF i = 1 THEN 0 ELSE Offset(results, i - 1) + Len(results[i - 1]) + 1

\* t is the texts of results in their order, one space between two
\* consecutive ones and nothing else
Flat(t, texts) ==
    IF texts = << >> THEN t = Empty
    ELSE /\ Len(t) = Offset(texts, Len(texts)) + Len(texts[Len(texts)])
         /\ \A i \in 1..Len(texts) :
               /\ SubSeq(t, Offset(texts, i) + 1, Offset(texts, i) + Len(texts[i])) = texts[i]
               /\ i > 1 => t[Offset(texts, i)] = " "

\* the text of each segment: the transcript of its first alternative
SegmentTexts(results) == [i \in 1..Len(results) |-> Head(results[i])]

(* C16: when the transcription operation completes, the transcript written   *)
(* to the state is the text of every returned segment in the engine's        *)
(* order, one space between consecutive segments and none at the ends; for   *)
(* zero segments it is the empty string and the stage succeeds.              *)
C16_Transcript ==
    \A r \in Runs :
        Completed(r, "transcribe_audio") =>
            /\ pc[r] # "failed"
            /\ "transcript" \in DOMAIN state[r]
            /\ Flat(state[r]["transcript"], SegmentTexts(response[r]))
            /\ response[r] = << >> => state[r]["transcript"] = Empty

C16_Witness ==
    \E r \in Runs :
        /\ pc[r] = "returned"
        /\ response[r] = <<<<<<"hello">>>>, <<<<"world">>>>>>
        /\ state[r]["transcript"] = <<"hello", " ", "world">>

-----------------------------------------------------------------------------
\* the audio files exported or uploaded so far
Exported ==
    {fs[p] : p \in {q \in DOMAIN fs : fs[q].kind = "wav"}}
        \cup {remote[b] : b \in {c \in DOMAIN remote : remote[c].kind = "wav"}}

\* the sample rate the source video decodes to
SourceRate ==
    remote[<<<<"your-public-speaking-coach-bucket">>,
             <<"test_videos", "/", "sample_speech.mp4">>>>].rate

(* C17: the exported audio has sample rate 16000 Hz whatever rate the input   *)
(* decodes to; the resample step is performed exactly when the decoded rate  *)
(* differs from 16000 Hz, and it is done before the upload is called.         *)
C17_SampleRate ==
    /\ \A f \in Exported : f.rate = 16000
    /\ \A r \in Runs :
          /\ pc[r] = "upload_audio" =>
                /\ calls[r]["upload"] = 0
                /\ calls[r]["resample"] = (IF SourceRate = 16000 THEN 0 ELSE 1)
          /\ calls[r]["upload"] >= 1 =>
                calls[r]["resample"] = (IF SourceRate = 16000 THEN 0 ELSE 1)
          /\ SourceRate = 16000 => calls[r]["resample"] = 0

C17_Witness ==
    \E r \in Runs :
        /\ pc[r] = "transcribe_audio"
        /\ SourceRate = 44100
        /\ calls[r]["resample"] = 1
        /\ \E b \in keys[r] : remote[b] = Wav(16000)

-----------------------------------------------------------------------------
\* the URI of stored object b, spelled out
UriOf(b) == <<"g", "s", ":", "/", "/">> \o b[1] \o <<"/">> \o b[2]

\* the folder of the bucket a scratch file is uploaded to
FolderOf(p) == IF p[Len(p)] = "_feedback.mp3" THEN "feedback_audio" ELSE "extracted_audio"

\* the object of run r that reference field key names
Uploaded(r, key, folder, kind) ==
    \E b \in keys[r] :
        /\ UriOf(b) = state[r][key]
        /\ b[2][1] = folder
        /\ b \in DOMAIN remote
        /\ remote[b].kind = kind

(* C18: a reference held in the state names an object that was uploaded: it  *)
(* is written only once the upload has succeeded and equals the URI of the   *)
(* uploaded key; the local file is there when the upload is called and is     *)
(* removed only after it; no stage deletes a stored object.                   *)
C18_UploadedRefs ==
    \A r \in Runs :
        /\ "extracted_audio_gcs_uri" \in DOMAIN state[r] =>
              Uploaded(r, "extracted_audio_gcs_uri", "extracted_audio", "wav")
        /\ "feedback_audio_gcs_uri" \in DOMAIN state[r] =>
              Uploaded(r, "feedback_audio_gcs_uri", "feedback_audio", "mp3")
        /\ pc[r] = "upload_audio" =>
              /\ <<"/tmp/">> \o uid[r] \o <<"_extracted_audio.wav">> \in DOMAIN fs
              /\ \A b \in keys[r] : b[2][1] # "extracted_audio"
        /\ pc[r] = "upload_feedback" =>
              /\ <<"/tmp/">> \o uid[r] \o <<"_feedback.mp3">> \in DOMAIN fs
              /\ \A b \in keys[r] : b[2][1] # "feedback_audio"
        /\ \A p \in paths[r] :
              p \notin DOMAIN fs => \E b \in keys[r] : b[2][1] = FolderOf(p)
        /\ keys[r] \subseteq DOMAIN remote
        /\ <<<<"your-public-speaking-coach-bucket">>,
             <<"test_videos", "/", "sample_speech.mp4">>>> \in DOMAIN remote

C18_Witness ==
    \E r \in Runs :
        /\ pc[r] = "END"
        /\ Cardinality(keys[r]) = 2
        /\ paths[r] \cap DOMAIN fs = {}
        /\ Uploaded(r, "extracted_audio_gcs_uri", "extracted_audio", "wav")
        /\ Uploaded(r, "feedback_audio_gcs_uri", "feedback_audio", "mp3")

-----------------------------------------------------------------------------
(* Termination: one run of the graph, every collaborator call of which       *)
(* eventually returns or fails                                               *)

InitSolo ==
    /\ driver = "graph"
    /\ \E only \in Runs : pc = [r \in Runs |-> IF r = only THEN EntryPoint ELSE "idle"]
    /\ state = [r \in Runs |-> PublicSpeakingState(SampleVideoUri)]
    /\ error = [r \in Runs |-> NoError]
    /\ uid = [r \in Runs |-> Empty]
    /\ fs = EmptyDict
    /\ \E rate \in Rates : remote = Put(EmptyDict, ParseGcsUri(SampleVideoUri), Video(rate))
    /\ drawn = {}
    /\ started = [r \in Runs |-> [n \in Nodes |-> 0]]
    /\ calls = [r \in Runs |-> [c \in Collaborators |-> 0]]
    /\ paths = [r \in Runs |-> {}]
    /\ keys = [r \in Runs |-> {}]
    /\ response = [r \in Runs |-> << >>]
    /\ locals = [r \in Runs |-> EmptyDict]

\* run r takes its next step
Step(r) ==
    \/ ExtractDownload(r)
    \/ ExtractDecode(r)
    \/ ExtractUpload(r)
    \/ TranscribeSubmit(r)
    \/ TranscribeResult(r)
    \/ Coach(r)
    \/ SynthCall(r)
    \/ SynthUpload(r)

\* a blocking call returns or raises: the step that waits for it is taken
Fairness == \A r \in Runs : WF_vars(Step(r))

SpecLive == InitSolo /\ [][Next]_vars /\ Fairness

\* the stage executions of run r so far
Executions(r) ==
    started[r]["extract_audio"] + started[r]["transcribe_audio"]
        + started[r]["coach_feedback"] + started[r]["synthesize_audio_feedback"]

(* C19: every run terminates: it reaches END after the synthesis stage or    *)
(* stops with an error, after at most four stage executions; no stage is      *)
(* entered twice.                                                             *)
C19_Terminates ==
    /\ \A r \in Runs : (pc[r] = "extract_audio") ~> (pc[r] \in {"END", "failed"})
    /\ [](\A r \in Runs :
            /\ \A n \in {"extract_audio", "transcribe_audio", "coach_feedback",
                         "synthesize_audio_feedback"} : started[r][n] <= 1
            /\ Executions(r) <= 4
            /\ pc[r] = "END" => started[r]["synthesize_audio_feedback"] = 1)

C19_Witness ==
    \E r \in Runs :
        /\ pc[r] = "END"
        /\ Executions(r) = 4

-----------------------------------------------------------------------------
(* The storage test of utils.py, lines 100-118: upload a file under a blob   *)
(* name, download it through the URI the upload returned, delete it          *)

KeyAlphabet == {"g", "s", ":", "/", "x"}

BlobNames == UNION {[1..n -> KeyAlphabet] : n \in 1..MaxKeyLen}

TestLocalFile == <<"test_upload_file.txt">>
DownloadedLocalFile == <<"test_download_file.txt">>
TestContent == [kind |-> "text", rate |-> 0, text |-> <<"This is a test file for GCS operations.">>]

\* lines 101-105, up to the call of upload_to_gcs: the local file is written and
\* uuid4 has been drawn once for the blob name
InitUtil ==
    /\ driver = "direct"
    /\ pc = [r \in Runs |-> IF r = 1 THEN "upload_to_gcs" ELSE "idle"]
    /\ state = [r \in Runs |-> EmptyDict]
    /\ error = [r \in Runs |-> NoError]
    /\ uid = [r \in Runs |-> Empty]
    /\ fs = Put(EmptyDict, TestLocalFile, TestContent)
    /\ remote = Put(EmptyDict, ParseGcsUri(SampleVideoUri), Video(TargetRate))
    /\ \E u \in Uuid4Values({}) : drawn = {u}
    /\ started = [r \in Runs |-> [n \in Nodes |-> 0]]
    /\ calls = [r \in Runs |-> [c \in Collaborators |-> 0]]
    /\ paths = [r \in Runs |-> {}]
    /\ keys = [r \in Runs |-> {}]
    /\ response = [r \in Runs |-> << >>]
    /\ \E name \in BlobNames :
          locals = [r \in Runs |->
                       IF r = 1 THEN Merge(EmptyDict, "test_gcs_blob_name", name) ELSE EmptyDict]

\* line 106: uploaded_gcs_uri = upload_to_gcs(test_local_file, test_gcs_blob_name)
UtilUpload(r) ==
    /\ pc[r] = "upload_to_gcs"
    /\ UNCHANGED <<driver, uid, fs, drawn, started, paths, response>>
    /\ calls' = Call(r, "upload")
    /\ LET destination_blob_name == locals[r]["test_gcs_blob_name"]
           blob == <<GCS_BUCKET_NAME, destination_blob_name>>
       IN  \/ /\ remote' = Put(remote, blob, fs[TestLocalFile])
              /\ keys' = [keys EXCEPT ![r] = @ \cup {blob}]
              /\ locals' = [locals EXCEPT ![r] =
                              Merge(@, "uploaded_gcs_uri",
                                    GcsUri(GCS_BUCKET_NAME, destination_blob_name))]
              /\ pc' = [pc EXCEPT ![r] = "download_from_gcs"]
              /\ UNCHANGED <<state, error>>
           \/ /\ UNCHANGED <<remote, keys, locals>>
              /\ Raise(r, "upload_to_gcs", "upload")

\* lines 108-113: download_from_gcs(uploaded_gcs_uri, downloaded_local_file)
UtilDownload(r) ==
    /\ pc[r] = "download_from_gcs"
    /\ UNCHANGED <<driver, uid, remote, drawn, started, paths, keys, response>>
    /\ calls' = Call(r, "download")
    /\ LET parsed == ParseGcsUri(locals[r]["uploaded_gcs_uri"])
       IN  /\ locals' = [locals EXCEPT ![r] = Merge(@, "download", parsed)]
           /\ \/ /\ parsed \in DOMAIN remote
                 /\ fs' = Put(fs, DownloadedLocalFile, remote[parsed])
                 /\ pc' = [pc EXCEPT ![r] = "delete_gcs_blob"]
                 /\ UNCHANGED <<state, error>>
              \/ \* no such object, or the transfer fails; the library may leave
                 \* the file it opened
                 /\ \E left \in BOOLEAN :
                      fs' = IF left THEN Put(fs, DownloadedLocalFile, Partial) ELSE fs
                 /\ Raise(r, "download_from_gcs", "download")

\* lines 115-117: delete_gcs_blob(uploaded_gcs_uri), then the two os.remove
UtilDelete(r) ==
    /\ pc[r] = "delete_gcs_blob"
    /\ UNCHANGED <<driver, uid, drawn, started, calls, paths, keys, response>>
    /\ LET parsed == ParseGcsUri(locals[r]["uploaded_gcs_uri"])
       IN  /\ locals' = [locals EXCEPT ![r] = Merge(@, "delete", parsed)]
           /\ \/ /\ parsed \in DOMAIN remote
                 /\ remote' = Del(remote, parsed)
              \/ \* blob.delete() raises; the exception is printed and dropped
                 UNCHANGED remote
           /\ \/ \* os.remove(test_local_file) fails
                 /\ UNCHANGED fs
                 /\ Raise(r, "__main__", "remove")
              \/ \* os.remove(downloaded_local_file) fails
                 /\ fs' = Del(fs, TestLocalFile)
                 /\ Raise(r, "__main__", "remove")
              \/ /\ fs' = Del(Del(fs, TestLocalFile), DownloadedLocalFile)
                 /\ pc' = [pc EXCEPT ![r] = "returned"]
                 /\ UNCHANGED <<state, error>>

NextUtil == \E r \in Runs : UtilUpload(r) \/ UtilDownload(r) \/ UtilDelete(r)

SpecUtil == InitUtil /\ [][NextUtil]_vars

(* C20 as stated: the URI the upload returned for blob name K leads download *)
(* and delete to exactly the upload's bucket and blob K, for every non-empty *)
(* K, those holding '/' or 'gs://' included.                                  *)
C20_RoundTrip ==
    \A r \in Runs :
        \A op \in {"download", "delete"} :
            op \in DOMAIN locals[r] =>
                locals[r][op] = <<<<"your-public-speaking-coach-bucket">>,
                                  locals[r]["test_gcs_blob_name"]>>

====
